---- MODULE Spec2Model ----
(***************************************************************************)
(* State-machine model of src/code_sample.cpp: the scene registry          *)
(* (class Mateyko), the scene objects and their buffers (class Object3D),  *)
(* the camera (class Camera), the shading parameters (class ShaderInput)   *)
(* and the sphere generator (Mateyko::formSphere).                         *)
(*                                                                         *)
(* Arithmetic.  The program computes in 32-bit floats.  The model computes *)
(* in fixed point: a velocity v is the integer v * VeloScale, a coordinate *)
(* x is the integer x * PosScale, a component of a normalised vector is    *)
(* the integer n * NormScale, and divisions and square roots round toward  *)
(* zero.  The inputs are chosen so that these roundings do not occur in    *)
(* the cases the properties are about.                                     *)
(***************************************************************************)
EXTENDS Integers, Sequences, FiniteSets, TLC

(***************************************************************************)
(* Bounds of the model.                                                    *)
(***************************************************************************)
MaxPanEvents == 3

(***************************************************************************)
(* Fixed-point units.                                                      *)
(***************************************************************************)
VeloScale == 60
PosScale == 1200
NormScale == 1000

NULL == 0

\* Object3D instances and buffer pairs allocated in one run
MaxObjects == 3

\* NmpdAddSubtract steps a floating-point shading value is taken away from
\* its start, in either direction
MaxAdjust == 1

VARIABLES
    \* class Camera (src/code_sample.cpp:347-360)
    Eye, At, Up, fps,
    veloUpDown, veloLeftRight, veloEyeRot, veloAtRot,
    panEvents,
    \* class ShaderInput (src/code_sample.cpp:238-247): the index NmpdNumber
    \* sets, the channel, and for vGamma, vBrightness, vReflectance,
    \* vDiffusePower and vSkyBrightness (1..5) the number of increments less the
    \* number of decrements applied to the value the constructor gave it
    varIndex, vChannel, vShading,
    \* class Mateyko (src/code_sample.cpp:106-128), one value per instance
    constructed, objects, oColors, pd3dDevice, pInput, pCam, pSpace, oGroundZero,
    \* the Object3D instances and the buffer pairs of the graphics backend
    o3d, buffers, appObjs,
    \* the last call: its name and arguments, the backend calls it issued, the
    \* mesh it handed to CreateBuffer, and the undefined behaviour that ended
    \* the run, if any
    lastOp, calls, upload, fault

camVars == <<Eye, At, Up, fps, veloUpDown, veloLeftRight, veloEyeRot, veloAtRot, panEvents>>

shaderVars == <<varIndex, vChannel, vShading>>

\* the state of the UserInput instances, which no call of the registry writes
inputVars == <<camVars, shaderVars>>

regVars == <<constructed, objects, oColors, pd3dDevice, pInput, pCam, pSpace, oGroundZero>>

heapVars == <<o3d, buffers, appObjs>>

sceneVars == <<regVars, heapVars, lastOp, calls, upload, fault>>

\* the state a camera call leaves alone
sceneRest == <<regVars, heapVars, calls, upload, fault, shaderVars>>

vars == <<camVars, shaderVars, sceneVars>>

\* the record of a call: the method, the instance, the argument
Op(name, r, a) == [op |-> name, reg |-> r, arg |-> a, reported |-> FALSE]

(***************************************************************************)
(* Vector helpers (xnamath XMVECTOR operations on x, y, z).                *)
(***************************************************************************)
Abs(a) == IF a < 0 THEN -a ELSE a

Sign(a) == IF a < 0 THEN -1 ELSE IF a > 0 THEN 1 ELSE 0

\* division rounding toward zero, as float-to-fixed truncation
DivT(a, b) == Sign(a) * Sign(b) * (Abs(a) \div Abs(b))

RECURSIVE SqrtSearch(_, _, _)
SqrtSearch(n, lo, hi) ==
    IF lo >= hi THEN lo
    ELSE LET mid == (lo + hi + 1) \div 2
         IN  IF mid * mid <= n THEN SqrtSearch(n, mid, hi)
             ELSE SqrtSearch(n, lo, mid - 1)

\* floor of the square root, 0 <= n < 2^30
ISqrt(n) == SqrtSearch(n, 0, 32767)

VecAdd(a, b) == <<a[1] + b[1], a[2] + b[2], a[3] + b[3]>>

VecSub(a, b) == <<a[1] - b[1], a[2] - b[2], a[3] - b[3]>>

VecNeg(a) == <<-a[1], -a[2], -a[3]>>

\* a variant of XMVectorSetY that leaves the y component as it is
XMVectorKeptY(a, y) == a

XMVectorSetY(a, y) == <<a[1], y, a[3]>>

Dot(a, b) == a[1] * b[1] + a[2] * b[2] + a[3] * b[3]

\* XMVector3Length, in the unit of the argument
XMVector3Length(a) == ISqrt(Dot(a, a))

\* XMVector3Normalize: the zero vector stays the zero vector; the result is
\* in NormScale units
XMVector3Normalize(a) ==
    LET len == XMVector3Length(a)
    IN  IF len = 0 THEN <<0, 0, 0>>
        ELSE <<DivT(a[1] * NormScale, len), DivT(a[2] * NormScale, len),
               DivT(a[3] * NormScale, len)>>

\* XMVector3Cross of a vector in NormScale units with world-up (0, 1, 0)
CrossWithUp(a) == <<-a[3], 0, a[1]>>

\* sin( pi * t / 1000 ) in NormScale units, by Bhaskara's rational formula
\* sin( pi * u ) = 16 u (1 - u) / (5 - 4 u (1 - u)) for 0 <= u <= 1, which
\* is exact at the multiples of a quarter turn
SinPi(t) ==
    LET r == t % 2000
        h == IF r >= 1000 THEN r - 1000 ELSE r
        tt == h * (1000 - h)
        s == (4 * tt * NormScale) \div (1250000 - tt)
    IN  IF r >= 1000 THEN -s ELSE s

CosPi(t) == SinPi(t + 500)

\* XMVector3TransformCoord( a, XMMatrixRotationAxis( (0,1,0), pi * t / 1000 ) )
RotateY(a, t) ==
    <<DivT(a[1] * CosPi(t) + a[3] * SinPi(t), NormScale),
      a[2],
      DivT(a[3] * CosPi(t) - a[1] * SinPi(t), NormScale)>>

(***************************************************************************)
(* class Camera                                                            *)
(***************************************************************************)
acceleration == 3 * VeloScale

braking == -3 * VeloScale

\* the frame rates handed to SetFPS
FpsValues == {1, 2, 3}

\* the arguments of the constructors: the default constructor's eye and
\* look-at point, and eye positions handed to Camera(_eye, _at, _up) that
\* are near the upper pole, near the lower pole, below the look-at point
\* and beside a look-at point off the origin
CameraStarts ==
    { [eye |-> <<10 * PosScale, 5 * PosScale, 0>>, at |-> <<0, 0, 0>>],
      [eye |-> <<PosScale, 10 * PosScale, 0>>, at |-> <<0, 0, 0>>],
      [eye |-> <<PosScale, -10 * PosScale, 0>>, at |-> <<0, 0, 0>>],
      [eye |-> <<10 * PosScale, -5 * PosScale, 0>>, at |-> <<0, 0, 0>>],
      [eye |-> <<0, 2 * PosScale, 5 * PosScale>>, at |-> <<0, PosScale, 0>>] }

CameraInit ==
    /\ \E s \in CameraStarts : Eye = s.eye /\ At = s.at
    /\ Up = <<0, NormScale, 0>>
    /\ fps = 1
    /\ veloUpDown = 0
    /\ veloLeftRight = 0
    /\ veloEyeRot = 0
    /\ veloAtRot = 0
    /\ panEvents = 0

SetFPS(arg) ==
    /\ fps' = arg
    /\ lastOp' = Op("SetFPS", 0, arg)
    /\ UNCHANGED <<Eye, At, Up, veloUpDown, veloLeftRight, veloEyeRot, veloAtRot, panEvents, sceneRest>>

\* a variant of the braking step that leaves the last notch of a velocity
BrakedShort(v) ==
    IF v > DivT(-braking, fps) THEN v + DivT(braking, fps) ELSE v

\* one velocity after the braking step of UpdateCam
Braked(v) ==
    LET w == v + DivT(braking, fps)
    IN  IF w < 0 THEN 0 ELSE w

UpdateCam ==
    /\ veloUpDown' = Braked(veloUpDown)
    /\ veloLeftRight' = Braked(veloLeftRight)
    /\ veloEyeRot' = Braked(veloEyeRot)
    /\ veloAtRot' = Braked(veloAtRot)
    /\ lastOp' = Op("UpdateCam", 0, 0)
    /\ UNCHANGED <<Eye, At, Up, fps, panEvents, sceneRest>>

\* one velocity after an input event on its axis
Accelerated(v) ==
    IF v < VeloScale THEN v + DivT(acceleration, fps) ELSE v

\* velo * movDir / fps in PosScale units (movDir in NormScale units)
Displacement(velo, movDir) ==
    LET scaled(c) == DivT(velo * c * (PosScale \div VeloScale), NormScale * fps)
    IN  <<scaled(movDir[1]), scaled(movDir[2]), scaled(movDir[3])>>

ArrowsUpDown(arg) ==
    LET negOrPos == IF arg >= 0 THEN 1 ELSE -1
        movDir == XMVector3Normalize(XMVectorSetY(VecSub(At, Eye), 0))
        velo == Accelerated(veloUpDown)
        step == Displacement(negOrPos * velo, movDir)
    IN  /\ panEvents < MaxPanEvents
        /\ panEvents' = panEvents + 1
        /\ veloUpDown' = velo
        /\ At' = VecAdd(At, step)
        /\ Eye' = VecAdd(Eye, step)
        /\ lastOp' = Op("ArrowsUpDown", 0, arg)
        /\ UNCHANGED <<Up, fps, veloLeftRight, veloEyeRot, veloAtRot, sceneRest>>

ArrowsLeftRight(arg) ==
    LET flat == XMVector3Normalize(XMVectorSetY(VecSub(At, Eye), 0))
        right == CrossWithUp(flat)
        movDir == IF arg < 0 THEN VecNeg(right) ELSE right
        velo == Accelerated(veloLeftRight)
        step == Displacement(velo, movDir)
    IN  /\ panEvents < MaxPanEvents
        /\ panEvents' = panEvents + 1
        /\ veloLeftRight' = velo
        /\ At' = VecAdd(At, step)
        /\ Eye' = VecAdd(Eye, step)
        /\ lastOp' = Op("ArrowsLeftRight", 0, arg)
        /\ UNCHANGED <<Up, fps, veloUpDown, veloEyeRot, veloAtRot, sceneRest>>

\* the cosine of the angle between Eye - At and world-up, in NormScale units
Cosine == XMVector3Normalize(VecSub(Eye, At))[2]

\* 0.9f in NormScale units
GimbalThreshold == (9 * NormScale) \div 10

\* a variant of the early return that tests the upper pole against a
\* downward rotation
MouseUpDownRejectedDownward(arg) ==
    \/ (Cosine > GimbalThreshold /\ arg < 0)
    \/ (Cosine < GimbalThreshold /\ arg < 0)

\* the early return of MouseUpDown
MouseUpDownRejected(arg) ==
    \/ (Cosine > GimbalThreshold /\ arg >= 0)
    \/ (Cosine < GimbalThreshold /\ arg < 0)

MouseUpDown(arg) ==
    LET movDir == VecSub(Eye, At)
        atEyeDist == XMVector3Length(movDir)
        axis == CrossWithUp(XMVector3Normalize(XMVectorSetY(movDir, 0)))
        \* XMMatrixRotationAxis( movDir, arg ) applied to movDir itself: a
        \* vector on the rotation axis is left where it is
        turned == axis
        newEye == <<At[1] + DivT(atEyeDist * turned[1], NormScale),
                    At[2] + DivT(atEyeDist * turned[2], NormScale),
                    At[3] + DivT(atEyeDist * turned[3], NormScale)>>
    IN  /\ Eye' = IF MouseUpDownRejected(arg) THEN Eye ELSE newEye
        /\ lastOp' = Op("MouseUpDown", 0, arg)
        /\ UNCHANGED <<At, Up, fps, veloUpDown, veloLeftRight, veloEyeRot, veloAtRot, panEvents, sceneRest>>

\* arg is the angle in thousandths of pi
MouseLeftRight(arg) ==
    /\ Eye' = VecAdd(At, RotateY(VecSub(Eye, At), arg))
    /\ lastOp' = Op("MouseLeftRight", 0, arg)
    /\ UNCHANGED <<At, Up, fps, veloUpDown, veloLeftRight, veloEyeRot, veloAtRot, panEvents, sceneRest>>

\* the angle XM_PI * veloEyeRot / fps in thousandths of pi
WsadAngle == DivT(1000 * veloEyeRot, VeloScale * fps)

WsadLeftRight(arg) ==
    /\ At' = VecAdd(Eye, RotateY(VecSub(At, Eye), WsadAngle))
    /\ lastOp' = Op("WsadLeftRight", 0, arg)
    /\ UNCHANGED <<Eye, Up, fps, veloUpDown, veloLeftRight, veloEyeRot, veloAtRot, panEvents, sceneRest>>

\* the input events delivered to the camera and its per-frame calls
PanArgs == {-1, 1}

MouseArgs == {-1, 0, 1}

TurnArgs == {500}

\* the pan and decay calls of a frame loop
PanNext ==
    \/ \E f \in FpsValues : SetFPS(f)
    \/ UpdateCam
    \/ \E a \in PanArgs : ArrowsUpDown(a)
    \/ \E a \in PanArgs : ArrowsLeftRight(a)

\* the frame rates of the held-key runs
HeldFps == {60, 30, 20, 15, 12, 10}

\* a held arrow key: after SetFPS every frame delivers one ArrowsUpDown event
\* and then one UpdateCam
HeldNext ==
    \/ /\ lastOp.op = "Mateyko"
       /\ \E f \in HeldFps : SetFPS(f)
    \/ /\ lastOp.op \in {"SetFPS", "UpdateCam"}
       /\ \E a \in PanArgs : ArrowsUpDown(a)
    \/ /\ lastOp.op = "ArrowsUpDown"
       /\ UpdateCam

\* the orbit calls
OrbitNext ==
    \/ \E a \in MouseArgs : MouseUpDown(a)
    \/ \E a \in TurnArgs : MouseLeftRight(a)
    \/ \E a \in PanArgs : WsadLeftRight(a)

(***************************************************************************)
(* class ShaderInput: the numpad handlers                                  *)
(***************************************************************************)
\* ShaderInput( pd3dDevice, szFileName, szTechName ) sets the six shading
\* values and leaves varIndex as it finds it: until NmpdNumber is called the
\* member holds whatever the memory held, one of indices
ShaderInit(indices) ==
    /\ varIndex \in indices
    /\ vChannel = 0
    /\ vShading = [k \in 1..5 |-> 0]

\* a variant of the channel step whose upper test lets 15 pass
ChannelAfterWide(channel, arg) ==
    IF channel <= 15 /\ arg >= 0 THEN channel + 1
    ELSE IF channel > 0 /\ arg < 0 THEN channel - 1
    ELSE channel

\* case 6 of NmpdAddSubtract
ChannelAfter(channel, arg) ==
    IF channel <= 14 /\ arg >= 0 THEN channel + 1
    ELSE IF channel > 0 /\ arg < 0 THEN channel - 1
    ELSE channel

NmpdNumber(arg) ==
    /\ varIndex' = arg
    /\ lastOp' = Op("NmpdNumber", 0, arg)
    /\ UNCHANGED <<vChannel, vShading, camVars, regVars, heapVars, calls, upload, fault>>

NmpdAddSubtract(arg) ==
    LET negOrPos == IF arg >= 0 THEN 1 ELSE -1
    IN  /\ lastOp' = Op("NmpdAddSubtract", 0, arg)
        /\ IF varIndex \in 1..5
           THEN /\ Abs(vShading[varIndex] + negOrPos) <= MaxAdjust
                /\ vShading' = [vShading EXCEPT ![varIndex] = @ + negOrPos]
                /\ vChannel' = vChannel
           ELSE IF varIndex = 6
           THEN /\ vChannel' = ChannelAfter(vChannel, arg)
                /\ vShading' = vShading
           ELSE UNCHANGED <<vChannel, vShading>>
        /\ UNCHANGED <<varIndex, camVars, regVars, heapVars, calls, upload, fault>>

\* the keys of the numpad, and a value a member that was never written may hold
NmpdNumbers == 0..9

VarIndexValues == NmpdNumbers \cup {-1}

NmpdArgs == {-1, 0, 1}

ShaderNext ==
    \/ \E a \in NmpdNumbers : NmpdNumber(a)
    \/ \E a \in NmpdArgs : NmpdAddSubtract(a)

(***************************************************************************)
(* Mateyko::formSphere: the vertex list and the triangle index list.       *)
(* A vertex is recorded by how the code obtains it: the pole it is, or the *)
(* meridian it lies on (the brush is turned about the y axis by            *)
(* mAngle * meridian) and the number of pAngle steps the brush has taken   *)
(* from the top.  DWORD results stay below 2^31 for the inputs used, where *)
(* reduction modulo 2^32 leaves them as they are.                          *)
(***************************************************************************)
TopVertex(color) == [pole |-> "top", meridian |-> 0, steps |-> 0, color |-> color]

BottomVertex(color) == [pole |-> "bottom", meridian |-> 0, steps |-> 0, color |-> color]

GridVertex(i, j, color) == [pole |-> "none", meridian |-> i, steps |-> j + 1, color |-> color]

\* the inner loop of the vertex stage: for( j = from; j < parallels - 1; j++ )
RECURSIVE MeridianVertices(_, _, _, _)
MeridianVertices(i, j, parallels, color) ==
    IF j < parallels - 1
    THEN <<GridVertex(i, j, color)>> \o MeridianVertices(i, j + 1, parallels, color)
    ELSE <<>>

\* the outer loop of the vertex stage: for( i = from; i < meridians; i++ )
RECURSIVE GridVertices(_, _, _, _)
GridVertices(i, meridians, parallels, color) ==
    IF i < meridians
    THEN MeridianVertices(i, 0, parallels, color)
         \o GridVertices(i + 1, meridians, parallels, color)
    ELSE <<>>

\* a variant of the vertex stage that leaves out the bottom pole
SphereVerticesOnePole(meridians, parallels, color) ==
    <<TopVertex(color)>> \o GridVertices(0, meridians, parallels, color)

SphereVertices(meridians, parallels, color) ==
    <<TopVertex(color), BottomVertex(color)>> \o GridVertices(0, meridians, parallels, color)

\* the place in fnVertices of the j-th vertex pushed for meridian i: the two
\* poles come first, then parallels - 1 vertices per meridian
VertexIndex(i, j, parallels) == 2 + i * (parallels - 1) + j

\* a variant of the "midst triangles" loop that splits every square along
\* its other diagonal
RECURSIVE MidstTrianglesCrossed(_, _, _)
MidstTrianglesCrossed(i, j, parallels) ==
    IF j < parallels - 2
    THEN << i * (parallels - 1) + 2 + j,
            (i + 1) * (parallels - 1) + 2 + j,
            i * (parallels - 1) + 2 + j + 1,
            (i + 1) * (parallels - 1) + 2 + j,
            (i + 1) * (parallels - 1) + 2 + j + 1,
            i * (parallels - 1) + 2 + j + 1 >>
         \o MidstTrianglesCrossed(i, j + 1, parallels)
    ELSE <<>>

\* the "midst triangles" loop between meridian i and meridian i + 1
RECURSIVE MidstTriangles(_, _, _)
MidstTriangles(i, j, parallels) ==
    IF j < parallels - 2
    THEN << i * (parallels - 1) + 2 + j,
            (i + 1) * (parallels - 1) + 2 + j,
            (i + 1) * (parallels - 1) + 2 + j + 1,
            i * (parallels - 1) + 2 + j,
            (i + 1) * (parallels - 1) + 2 + j + 1,
            i * (parallels - 1) + 2 + j + 1 >>
         \o MidstTriangles(i, j + 1, parallels)
    ELSE <<>>

\* one iteration of the loop over the meridians but the last
MeridianTriangles(i, parallels) ==
    << 0, (i + 1) * (parallels - 1) + 2, i * (parallels - 1) + 2 >>
    \o MidstTriangles(i, 0, parallels)
    \o << 1, i * (parallels - 1) - 1 + parallels, (i + 1) * (parallels - 1) - 1 + parallels >>

\* for( i = from; i < meridians - 1; i++ )
RECURSIVE GridTriangles(_, _, _)
GridTriangles(i, meridians, parallels) ==
    IF i < meridians - 1
    THEN MeridianTriangles(i, parallels) \o GridTriangles(i + 1, meridians, parallels)
    ELSE <<>>

\* the loop of the last meridian, which closes the sphere onto meridian 0
RECURSIVE LastMidstTriangles(_, _, _)
LastMidstTriangles(i, j, parallels) ==
    IF j < parallels - 2
    THEN << i * (parallels - 1) + 2 + j,
            2 + j,
            2 + j + 1,
            i * (parallels - 1) + 2 + j,
            2 + j + 1,
            i * (parallels - 1) + 2 + j + 1 >>
         \o LastMidstTriangles(i, j + 1, parallels)
    ELSE <<>>

LastMeridianTriangles(meridians, parallels) ==
    LET i == meridians - 1
    IN  LastMidstTriangles(i, 0, parallels)
        \o << 0, 2, i * (parallels - 1) + 2 >>
        \o << 1, i * (parallels - 1) - 1 + parallels, -1 + parallels >>

\* the indices swap: the first and the third index of every triple change places
SwapTriangles(inds) ==
    [k \in 1..Len(inds) |->
        IF k > 3 * (Len(inds) \div 3) THEN inds[k]
        ELSE IF k % 3 = 1 THEN inds[k + 2]
        ELSE IF k % 3 = 0 THEN inds[k - 2]
        ELSE inds[k]]

SphereIndices(meridians, parallels) ==
    SwapTriangles(GridTriangles(0, meridians, parallels)
                  \o LastMeridianTriangles(meridians, parallels))

\* what formSphere hands to InsertObject
SphereMesh(meridians, parallels, color) ==
    [vertices |-> SphereVertices(meridians, parallels, color),
     indices |-> SphereIndices(meridians, parallels)]

(***************************************************************************)
(* class Object3D and the buffers of the graphics backend.                 *)
(* An Object3D instance holds one vertex/index buffer pair.  A buffer pair *)
(* is a COM object: CreateBuffer hands it out with reference count 1,      *)
(* AddRef and Release count, and the Release that reaches 0 frees it.      *)
(***************************************************************************)
Regs == {1, 2}

ObjIds == 1..MaxObjects

BufIds == 1..MaxObjects

Colors == {"red", "green"}

\* XMFLOAT4( 0.4f, 0.7f, 0.2f, 1.0f )
DefaultColor == "default"

NoObject == [state |-> "none", buf |-> NULL, vSize |-> 0, iSize |-> 0]

NoBuffer == [state |-> "none", refs |-> 0]

NoMesh == [vertices |-> <<>>, indices |-> <<>>]

\* the mesh an application hands to InsertObject or to the Object3D constructor
AppMesh == SphereMesh(3, 2, "red")

Range(f) == {f[k] : k \in DOMAIN f}

HasFreshObject == \E o \in ObjIds : o3d[o].state = "none"

\* a variant of new that hands out the id of a deleted instance again
FreshObjectReused == CHOOSE o \in ObjIds : o3d[o].state \in {"none", "deleted"} /\ \A q \in 1..(o - 1) : o3d[q].state = "live"

FreshObject == CHOOSE o \in ObjIds : o3d[o].state = "none" /\ \A q \in 1..(o - 1) : o3d[q].state # "none"

HasFreshBuffer == \E b \in BufIds : buffers[b].state = "none"

FreshBuffer == CHOOSE b \in BufIds : buffers[b].state = "none" /\ \A q \in 1..(b - 1) : buffers[q].state # "none"

\* ID3D10Buffer::AddRef on both buffers of the pair
AddRef(bs, b) == [bs EXCEPT ![b].refs = @ + 1]

\* ID3D10Buffer::Release on both buffers of the pair
Release(bs, b) ==
    [bs EXCEPT ![b].refs = @ - 1,
               ![b].state = IF bs[b].refs - 1 = 0 THEN "released" ELSE @]

\* Object3D( device, vertices, indices, vSize, iSize ): the new instance o
\* with the buffer pair b created from the mesh
ConstructedObjects(os, o, b, mesh) ==
    [os EXCEPT ![o] = [state |-> "live", buf |-> b,
                       vSize |-> Len(mesh.vertices), iSize |-> Len(mesh.indices)]]

CreatedBuffers(bs, b) ==
    [bs EXCEPT ![b] = [state |-> "live", refs |-> 1]]

\* a variant of the copy constructor that takes the buffers of the first live
\* instance instead of those of its argument
CopiedObjectsFirst(os, o, from) ==
    [os EXCEPT ![o] = os[CHOOSE q \in ObjIds : os[q].state = "live" /\ \A p \in 1..(q - 1) : os[p].state # "live"]]

\* Object3D( const Object3D& ): the new instance o shares the buffers of from
CopiedObjects(os, o, from) == [os EXCEPT ![o] = os[from]]

\* a variant of the copy constructor that leaves out the AddRef calls
CopiedBuffersUncounted(bs, os, from) == bs

CopiedBuffers(bs, os, from) == AddRef(bs, os[from].buf)

\* ~Object3D() on every instance of the set dead
RECURSIVE ReleasedBuffers(_, _, _)
ReleasedBuffers(bs, os, dead) ==
    IF dead = {} THEN bs
    ELSE LET o == CHOOSE q \in dead : TRUE
         IN  ReleasedBuffers(Release(bs, os[o].buf), os, dead \ {o})

DestroyedObjects(os, dead) ==
    [o \in ObjIds |-> IF o \in dead THEN [NoObject EXCEPT !.state = "deleted"] ELSE os[o]]

(***************************************************************************)
(* class Mateyko                                                           *)
(***************************************************************************)
\* the instances the shared_ptrs of the objects vectors keep alive
SharedOwned(objs, live) == UNION {Range(objs[r]) : r \in {q \in Regs : live[q]}}

\* the instances whose last shared_ptr goes away when the vectors change
\* from objs to newObjs
Dropped(objs, newObjs, live, newLive) == SharedOwned(objs, live) \ SharedOwned(newObjs, newLive)

RemoveAt(seq, k) == [j \in 1..(Len(seq) - 1) |-> IF j < k THEN seq[j] ELSE seq[j + 1]]

SceneInit ==
    /\ constructed = [r \in Regs |-> r = 1]
    /\ objects = [r \in Regs |-> <<>>]
    /\ oColors = [r \in Regs |-> <<>>]
    /\ pd3dDevice = [r \in Regs |-> NULL]
    /\ pInput = [r \in Regs |-> NULL]
    /\ pCam = [r \in Regs |-> NULL]
    /\ pSpace = [r \in Regs |-> NULL]
    /\ oGroundZero = [r \in Regs |-> NULL]
    /\ o3d = [o \in ObjIds |-> NoObject]
    /\ buffers = [b \in BufIds |-> NoBuffer]
    /\ appObjs = {}
    /\ lastOp = Op("Mateyko", 1, 0)
    /\ calls = <<>>
    /\ upload = NoMesh
    /\ fault = "none"

\* Mateyko( const Mateyko& ): the instance r is constructed as a copy of s
MateykoCopy(r, s) ==
    /\ fault = "none"
    /\ ~constructed[r] /\ constructed[s]
    /\ constructed' = [constructed EXCEPT ![r] = TRUE]
    /\ pd3dDevice' = [pd3dDevice EXCEPT ![r] = NULL]
    /\ oGroundZero' = [oGroundZero EXCEPT ![r] = NULL]
    /\ pInput' = [pInput EXCEPT ![r] = pInput[s]]
    /\ pCam' = [pCam EXCEPT ![r] = pCam[s]]
    /\ pSpace' = [pSpace EXCEPT ![r] = pSpace[s]]
    /\ objects' = [objects EXCEPT ![r] = objects[s]]
    /\ oColors' = [oColors EXCEPT ![r] = oColors[s]]
    /\ lastOp' = Op("MateykoCopy", r, s)
    /\ calls' = <<>> /\ upload' = NoMesh
    /\ UNCHANGED <<heapVars, fault, inputVars>>

InitDevice(r) ==
    /\ fault = "none"
    /\ constructed[r]
    /\ pd3dDevice' = [pd3dDevice EXCEPT ![r] = 1]
    /\ lastOp' = Op("InitDevice", r, 0)
    /\ calls' = <<>> /\ upload' = NoMesh
    /\ UNCHANGED <<constructed, objects, oColors, pInput, pCam, pSpace, oGroundZero,
                   heapVars, fault, inputVars>>

BindCamera(r) ==
    /\ fault = "none"
    /\ constructed[r]
    /\ pCam' = [pCam EXCEPT ![r] = 1]
    /\ lastOp' = Op("BindCamera", r, 0)
    /\ calls' = <<>> /\ upload' = NoMesh
    /\ UNCHANGED <<constructed, objects, oColors, pd3dDevice, pInput, pSpace, oGroundZero,
                   heapVars, fault, inputVars>>

BindSpace(r) ==
    /\ fault = "none"
    /\ constructed[r]
    /\ pSpace' = [pSpace EXCEPT ![r] = 1]
    /\ lastOp' = Op("BindSpace", r, 0)
    /\ calls' = <<>> /\ upload' = NoMesh
    /\ UNCHANGED <<constructed, objects, oColors, pd3dDevice, pInput, pCam, oGroundZero,
                   heapVars, fault, inputVars>>

\* pInput = shi; pd3dDevice->IASetInputLayout( ... ): a call through the
\* null device pointer is an access violation
BindInput(r) ==
    /\ fault = "none"
    /\ constructed[r]
    /\ pInput' = [pInput EXCEPT ![r] = 1]
    /\ lastOp' = Op("BindInput", r, 0)
    /\ IF pd3dDevice[r] = NULL
       THEN calls' = <<>> /\ upload' = NoMesh /\ fault' = "null_device"
       ELSE calls' = << [fn |-> "IASetInputLayout", arg |-> 0] >> /\ upload' = NoMesh /\ fault' = fault
    /\ UNCHANGED <<constructed, objects, oColors, pd3dDevice, pCam, pSpace, oGroundZero,
                   heapVars, inputVars>>

\* the body of InsertObject( void* verts, DWORD* inds, UINT vSize, UINT iSize,
\* XMFLOAT4 color ): new Object3D( pd3dDevice, ... ), whose constructor calls
\* pd3dDevice->CreateBuffer, then the two push_backs
\* the HRESULT of ID3D10Device::CreateBuffer
S_OK == "S_OK"

E_FAIL == "E_FAIL"

HResults == {S_OK, E_FAIL}

\* a variant that stores the new color in front of the others
InsertedColorsFront(cs, color) == <<color>> \o cs

\* oColors.push_back( color )
InsertedColors(cs, color) == Append(cs, color)

\* new Object3D( pd3dDevice, verts, inds, vSize, iSize ), then the two
\* push_back.  hr is what CreateBuffer returns for the buffer pair.  When it
\* fails the constructor shows the message box of ERRORMACRO and goes on:
\* the instance holds a buffer that was never created (NULL) and is pushed
\* like any other
InsertBody(r, mesh, color, hr) ==
    /\ fault = "none"
    /\ constructed[r]
    /\ IF pd3dDevice[r] = NULL
       THEN /\ fault' = "null_device"
            /\ calls' = <<>> /\ upload' = NoMesh
            /\ UNCHANGED <<regVars, heapVars>>
       ELSE /\ HasFreshObject
            /\ IF hr = S_OK
               THEN /\ HasFreshBuffer
                    /\ o3d' = ConstructedObjects(o3d, FreshObject, FreshBuffer, mesh)
                    /\ buffers' = CreatedBuffers(buffers, FreshBuffer)
                    /\ calls' = << [fn |-> "CreateBuffer", arg |-> FreshBuffer] >>
               ELSE /\ o3d' = ConstructedObjects(o3d, FreshObject, NULL, mesh)
                    /\ buffers' = buffers
                    /\ calls' = << [fn |-> "CreateBuffer", arg |-> NULL],
                                  [fn |-> "MessageBox", arg |-> 0] >>
            /\ objects' = [objects EXCEPT ![r] = Append(@, FreshObject)]
            /\ oColors' = [oColors EXCEPT ![r] = InsertedColors(@, color)]
            /\ upload' = mesh
            /\ UNCHANGED <<constructed, pd3dDevice, pInput, pCam, pSpace, oGroundZero,
                           appObjs, fault>>
    /\ UNCHANGED inputVars

\* InsertObject with a backend that fails or not
InsertObjectBackend(r, mesh, color, hr) ==
    /\ InsertBody(r, mesh, color, hr)
    /\ lastOp' = Op("InsertObject", r, color)

\* InsertObject with a backend that creates the buffers
InsertObject(r, mesh, color) ==
    /\ InsertBody(r, mesh, color, S_OK)
    /\ lastOp' = Op("InsertObject", r, color)

\* meridians and parallels are UINT: meridians - 1, parallels - 1 and
\* parallels - 2 wrap around to 2^32 - 1 or 2^32 - 2 below their minimum, and
\* a loop with such a bound pushes vertices or indices until push_back
\* throws std::bad_alloc.  The bounds that are reached: j < parallels - 1
\* in the vertex stage when there is a meridian, i < meridians - 1 in the
\* index stage, j < parallels - 2 in the stage of the last meridian
SphereRunsAway(meridians, parallels) ==
    \/ (meridians >= 1 /\ parallels < 1)
    \/ meridians < 1
    \/ parallels < 2

formSphere(r, meridians, parallels, color) ==
    /\ lastOp' = Op("formSphere", r, <<meridians, parallels, color>>)
    /\ IF SphereRunsAway(meridians, parallels)
       THEN /\ fault = "none"
            /\ constructed[r]
            /\ fault' = "bad_alloc"
            /\ calls' = <<>> /\ upload' = NoMesh
            /\ UNCHANGED <<regVars, heapVars, inputVars>>
       ELSE InsertBody(r, SphereMesh(meridians, parallels, color), color, S_OK)

\* InsertObject( Object3D* o3d ): new Object3D( *o3d ), push_back of the
\* copy and of the predefined color
InsertObjectCopy(r, from) ==
    /\ fault = "none"
    /\ constructed[r]
    /\ from \in appObjs
    /\ HasFreshObject
    /\ o3d' = CopiedObjects(o3d, FreshObject, from)
    /\ buffers' = CopiedBuffers(buffers, o3d, from)
    /\ objects' = [objects EXCEPT ![r] = Append(@, FreshObject)]
    /\ oColors' = [oColors EXCEPT ![r] = Append(@, DefaultColor)]
    /\ lastOp' = Op("InsertObjectCopy", r, from)
    /\ calls' = <<>> /\ upload' = NoMesh
    /\ UNCHANGED <<constructed, pd3dDevice, pInput, pCam, pSpace, oGroundZero,
                   appObjs, fault, inputVars>>

\* the destructors run when the objects vectors change to newObjs
DropEffect(newObjs, newLive) ==
    LET dead == Dropped(objects, newObjs, constructed, newLive)
    IN  /\ o3d' = DestroyedObjects(o3d, dead)
        /\ buffers' = ReleasedBuffers(buffers, o3d, dead)

\* a variant of the erase that drops the last element whatever the index
EraseAtBack(seq, oNum) == RemoveAt(seq, Len(seq))

\* vector::erase( begin() + oNum )
EraseAt(seq, oNum) == RemoveAt(seq, oNum + 1)

\* RemoveObject( int oNum ).  erase with an iterator outside [begin, end) is
\* undefined: the run ends in an access violation, or the erase moves
\* nothing and drops the last element of the vector
RemoveObject(r, oNum) ==
    /\ fault = "none"
    /\ constructed[r]
    /\ lastOp' = Op("RemoveObject", r, oNum)
    /\ calls' = <<>> /\ upload' = NoMesh
    /\ IF 0 <= oNum /\ oNum < Len(objects[r])
       THEN /\ objects' = [objects EXCEPT ![r] = EraseAt(@, oNum)]
            /\ oColors' = [oColors EXCEPT ![r] = EraseAt(@, oNum)]
            /\ DropEffect(objects', constructed)
            /\ fault' = fault
       ELSE \/ /\ fault' = "erase_out_of_range"
               /\ UNCHANGED <<objects, oColors, o3d, buffers>>
            \/ /\ Len(objects[r]) > 0
               /\ objects' = [objects EXCEPT ![r] = SubSeq(@, 1, Len(@) - 1)]
               /\ oColors' = [oColors EXCEPT ![r] = SubSeq(@, 1, Len(@) - 1)]
               /\ DropEffect(objects', constructed)
               /\ fault' = fault
    /\ UNCHANGED <<constructed, pd3dDevice, pInput, pCam, pSpace, oGroundZero, appObjs, inputVars>>

\* RemoveAll: objects.clear() runs the destructor of every instance nothing
\* else holds; the destructor of an instance whose buffer was never created
\* calls Release through a null pointer
RemoveAll(r) ==
    /\ fault = "none"
    /\ constructed[r]
    /\ lastOp' = Op("RemoveAll", r, 0)
    /\ calls' = <<>> /\ upload' = NoMesh
    /\ LET cleared == [objects EXCEPT ![r] = <<>>]
           dead == Dropped(objects, cleared, constructed, constructed)
       IN  IF \E o \in dead : o3d[o].buf = NULL
           THEN /\ fault' = "null_buffer"
                /\ UNCHANGED <<objects, oColors, o3d, buffers>>
           ELSE /\ objects' = cleared
                /\ oColors' = [oColors EXCEPT ![r] = <<>>]
                /\ DropEffect(objects', constructed)
                /\ fault' = fault
    /\ UNCHANGED <<constructed, pd3dDevice, pInput, pCam, pSpace, oGroundZero, appObjs,
                   inputVars>>

\* a variant of updateColor that stores a color past the end as a new entry
UpdatedColorsAppending(seq, oNumber, color) ==
    IF oNumber < Len(seq) THEN [seq EXCEPT ![oNumber + 1] = color] ELSE Append(seq, color)

\* a variant of updateColor that clamps the index to the last entry
UpdatedColorsClamped(seq, oNumber, color) ==
    IF seq = <<>> THEN seq
    ELSE [seq EXCEPT ![IF oNumber < Len(seq) THEN oNumber + 1 ELSE Len(seq)] = color]

\* the colors after updateColor( unsigned int oNumber, XMFLOAT4 color )
UpdatedColors(seq, oNumber, color) ==
    IF oNumber < Len(seq) THEN [seq EXCEPT ![oNumber + 1] = color] ELSE seq

updateColor(r, oNumber, color) ==
    /\ fault = "none"
    /\ constructed[r]
    /\ oColors' = [oColors EXCEPT ![r] = UpdatedColors(@, oNumber, color)]
    /\ lastOp' = Op("updateColor", r, <<oNumber, color>>)
    /\ calls' = <<>> /\ upload' = NoMesh
    /\ UNCHANGED <<constructed, objects, pd3dDevice, pInput, pCam, pSpace, oGroundZero,
                   heapVars, fault, inputVars>>

\* the mesh formRectangleObject builds: four corners, two triangles
\* a corner of the rectangle: Pos is the transform of ( x * xC, 0, z * zC )
\* into the space of lenDir and planeNormal, Color is
\* XMFLOAT4( 0.8f, 0.1f, 0.3f, 1.0f ), Norm is a copy of planeNormal
QuadVertex(x, z, planeNormal) ==
    [Pos |-> <<x, z>>, Color |-> "ground", Norm |-> planeNormal]

\* a variant that stores the normal of a horizontal ground whatever planeNormal is
QuadMeshLevel(planeNormal) ==
    [vertices |-> <<QuadVertex(-1, -1, <<0, 1, 0>>), QuadVertex(-1, 1, <<0, 1, 0>>),
                    QuadVertex(1, 1, <<0, 1, 0>>), QuadVertex(1, -1, <<0, 1, 0>>)>>,
     indices |-> <<0, 1, 2, 0, 2, 3>>]

QuadMesh(planeNormal) ==
    [vertices |-> <<QuadVertex(-1, -1, planeNormal), QuadVertex(-1, 1, planeNormal),
                    QuadVertex(1, 1, planeNormal), QuadVertex(1, -1, planeNormal)>>,
     indices |-> <<0, 1, 2, 0, 2, 3>>]

\* values of the XMFLOAT3 planeNormal argument, unit length or not
PlaneNormals == {<<0, 1, 0>>, <<0, 0, 1>>, <<1, 1, 0>>, <<0, -2, 0>>}

\* the normal of a horizontal ground
LevelNormal == <<0, 1, 0>>

\* if( oGroundZero ) delete oGroundZero;  on the heap (os, bs).  The
\* destructor of a ground whose buffer was never created calls Release
\* through a null pointer.  Deleting an
\* instance that was deleted before is undefined: "crash" ends the run,
\* "silent" lets the second delete pass over the freed memory unnoticed
GroundDeleted(r, os, bs, outcome) ==
    LET g == oGroundZero[r]
    IN  IF g = NULL THEN [o3d |-> os, buffers |-> bs, fault |-> "none"]
        ELSE IF os[g].state = "live" /\ os[g].buf = NULL
        THEN [o3d |-> os, buffers |-> bs, fault |-> "null_buffer"]
        ELSE IF os[g].state = "live"
        THEN [o3d |-> DestroyedObjects(os, {g}),
              buffers |-> ReleasedBuffers(bs, os, {g}), fault |-> "none"]
        ELSE IF outcome = "crash"
        THEN [o3d |-> os, buffers |-> bs, fault |-> "double_delete"]
        ELSE [o3d |-> os, buffers |-> bs, fault |-> "none"]

Outcomes == {"crash", "silent"}

\* formRectangleObject: the previous ground is deleted, then the new one is
\* created with new Object3D( pd3dDevice, ... )
formRectangleBody(r, planeNormal, hr) ==
    /\ fault = "none"
    /\ constructed[r]
    /\ lastOp' = Op("formRectangleObject", r, planeNormal)
    /\ \E outcome \in Outcomes :
         LET d == GroundDeleted(r, o3d, buffers, outcome)
         IN  IF d.fault # "none"
             THEN /\ fault' = d.fault
                  /\ calls' = <<>> /\ upload' = NoMesh
                  /\ UNCHANGED <<oGroundZero, o3d, buffers>>
             ELSE IF pd3dDevice[r] = NULL
             THEN /\ fault' = "null_device"
                  /\ calls' = <<>> /\ upload' = NoMesh
                  /\ o3d' = d.o3d
                  /\ buffers' = d.buffers
                  /\ UNCHANGED oGroundZero
             ELSE /\ \E o \in ObjIds :
                       /\ d.o3d[o].state = "none" /\ \A q \in 1..(o - 1) : d.o3d[q].state # "none"
                       /\ IF hr = S_OK
                          THEN \E b \in BufIds :
                                 /\ d.buffers[b].state = "none"
                                 /\ \A q \in 1..(b - 1) : d.buffers[q].state # "none"
                                 /\ o3d' = ConstructedObjects(d.o3d, o, b, QuadMesh(planeNormal))
                                 /\ buffers' = CreatedBuffers(d.buffers, b)
                                 /\ calls' = << [fn |-> "CreateBuffer", arg |-> b] >>
                          ELSE /\ o3d' = ConstructedObjects(d.o3d, o, NULL, QuadMesh(planeNormal))
                               /\ buffers' = d.buffers
                               /\ calls' = << [fn |-> "CreateBuffer", arg |-> NULL],
                                             [fn |-> "MessageBox", arg |-> 0] >>
                       /\ oGroundZero' = [oGroundZero EXCEPT ![r] = o]
                       /\ upload' = QuadMesh(planeNormal)
                  /\ fault' = fault
    /\ UNCHANGED <<constructed, objects, oColors, pd3dDevice, pInput, pCam, pSpace, appObjs, inputVars>>

\* formRectangleObject with a backend that fails or not
formRectangleObjectBackend(r, planeNormal, hr) == formRectangleBody(r, planeNormal, hr)

\* formRectangleObject with a backend that creates the buffers
formRectangleObject(r, planeNormal) == formRectangleBody(r, planeNormal, S_OK)

\* Mateyko::operator=( const Mateyko& mat ), this = r, mat = s
MateykoAssign(r, s) ==
    /\ fault = "none"
    /\ constructed[r] /\ constructed[s]
    /\ lastOp' = Op("MateykoAssign", r, s)
    /\ calls' = <<>> /\ upload' = NoMesh
    /\ IF r = s
       THEN UNCHANGED <<regVars, heapVars, fault>>
       ELSE \E outcome \in Outcomes :
              LET d == GroundDeleted(r, o3d, buffers, outcome)
                  newObjs == [objects EXCEPT ![r] = objects[s]]
                  dead == Dropped(objects, newObjs, constructed, constructed)
              IN  IF d.fault # "none"
                  THEN /\ fault' = d.fault
                       /\ UNCHANGED <<regVars, heapVars>>
                  ELSE /\ o3d' = DestroyedObjects(d.o3d, dead)
                       /\ buffers' = ReleasedBuffers(d.buffers, d.o3d, dead)
                       /\ objects' = newObjs
                       /\ oColors' = [oColors EXCEPT ![r] = oColors[s]]
                       /\ pd3dDevice' = [pd3dDevice EXCEPT ![r] = NULL]
                       /\ pInput' = [pInput EXCEPT ![r] = pInput[s]]
                       /\ pCam' = [pCam EXCEPT ![r] = pCam[s]]
                       /\ pSpace' = [pSpace EXCEPT ![r] = pSpace[s]]
                       /\ UNCHANGED <<constructed, oGroundZero, appObjs, fault>>
    /\ UNCHANGED inputVars

(***************************************************************************)
(* Object3D instances the application owns                                 *)
(***************************************************************************)
\* Object3D( GetDevice(), vertices, indices, vSize, iSize )
AppNewObject(r) ==
    /\ fault = "none"
    /\ constructed[r] /\ pd3dDevice[r] # NULL
    /\ HasFreshObject /\ HasFreshBuffer
    /\ o3d' = ConstructedObjects(o3d, FreshObject, FreshBuffer, AppMesh)
    /\ buffers' = CreatedBuffers(buffers, FreshBuffer)
    /\ appObjs' = appObjs \cup {FreshObject}
    /\ lastOp' = Op("AppNewObject", r, FreshObject)
    /\ calls' = << [fn |-> "CreateBuffer", arg |-> FreshBuffer] >>
    /\ upload' = AppMesh
    /\ UNCHANGED <<regVars, fault, inputVars>>

\* Object3D( const Object3D& )
AppCopyObject(from) ==
    /\ fault = "none"
    /\ from \in appObjs
    /\ HasFreshObject
    /\ o3d' = CopiedObjects(o3d, FreshObject, from)
    /\ buffers' = CopiedBuffers(buffers, o3d, from)
    /\ appObjs' = appObjs \cup {FreshObject}
    /\ lastOp' = Op("AppCopyObject", 0, from)
    /\ calls' = <<>> /\ upload' = NoMesh
    /\ UNCHANGED <<regVars, fault, inputVars>>

\* the buffers after Object3D::operator=: Release of the left operand's
\* buffers, then AddRef of the right operand's
AssignedBuffers(bs, os, left, right) == AddRef(Release(bs, os[left].buf), os[right].buf)

\* Object3D::operator=( const Object3D& o3d ), this = left
AppAssignObject(left, right) ==
    /\ fault = "none"
    /\ left \in appObjs /\ right \in appObjs
    /\ IF left = right
       THEN UNCHANGED <<o3d, buffers>>
       ELSE /\ buffers' = AssignedBuffers(buffers, o3d, left, right)
            /\ o3d' = [o3d EXCEPT ![left] = o3d[right]]
    /\ lastOp' = Op("AppAssignObject", left, right)
    /\ calls' = <<>> /\ upload' = NoMesh
    /\ UNCHANGED <<regVars, appObjs, fault, inputVars>>

\* ~Object3D()
AppDeleteObject(o) ==
    /\ fault = "none"
    /\ o \in appObjs
    /\ o3d' = DestroyedObjects(o3d, {o})
    /\ buffers' = ReleasedBuffers(buffers, o3d, {o})
    /\ appObjs' = appObjs \ {o}
    /\ lastOp' = Op("AppDeleteObject", 0, o)
    /\ calls' = <<>> /\ upload' = NoMesh
    /\ UNCHANGED <<regVars, fault, inputVars>>

(***************************************************************************)
(* Mateyko::PaintScene                                                     *)
(***************************************************************************)
Call(f, a) == [fn |-> f, arg |-> a]

\* a variant of the safety belt that leaves out the test of pSpace
FrameSkippedThree(r) ==
    \/ pd3dDevice[r] = NULL
    \/ pInput[r] = NULL
    \/ pCam[r] = NULL

\* the safety belt: the four early returns
FrameSkipped(r) ==
    \/ pd3dDevice[r] = NULL
    \/ pInput[r] = NULL
    \/ pCam[r] = NULL
    \/ pSpace[r] = NULL

\* the calls up to the object loop
FramePrologue(r) ==
    << Call("ClearRenderTargetView", 0),
       Call("ClearDepthStencilView", 0),
       Call("PrepareShadingControlVars", Len(oColors[r])),
       Call("PrepareCameraMatrices", 0),
       Call("PrepareEyePos", 0),
       Call("PreparePositions", 0),
       Call("PrepareColors", Len(oColors[r])) >>

\* the object loop: PrepareObject( world, i ) and objects[ i ]->Draw
ObjectCalls(r) ==
    [k \in 1..(2 * Len(objects[r])) |->
        IF k % 2 = 1 THEN Call("PrepareObject", (k - 1) \div 2)
        ELSE Call("Draw", objects[r][k \div 2])]

\* the floor: PrepareObject( translation, -1 ) and oGroundZero->Draw.  Draw
\* through a pointer to a deleted instance is undefined: "crash" ends the run
\* inside Draw, "silent" draws from the freed memory
GroundCalls(r, outcome) ==
    IF oGroundZero[r] = NULL THEN <<>>
    ELSE IF o3d[oGroundZero[r]].state = "live" \/ outcome = "silent"
    THEN << Call("PrepareObject", -1), Call("Draw", oGroundZero[r]) >>
    ELSE << Call("PrepareObject", -1) >>

GroundFault(r, outcome) ==
    IF oGroundZero[r] # NULL /\ o3d[oGroundZero[r]].state # "live" /\ outcome = "crash"
    THEN "use_after_free" ELSE "none"

PaintScene(r) ==
    /\ fault = "none"
    /\ constructed[r]
    /\ lastOp' = Op("PaintScene", r, 0)
    /\ IF FrameSkipped(r)
       THEN calls' = <<>> /\ upload' = NoMesh /\ fault' = fault
       ELSE \E outcome \in Outcomes :
              /\ fault' = GroundFault(r, outcome)
              /\ calls' = FramePrologue(r) \o ObjectCalls(r) \o GroundCalls(r, outcome)
                          \o (IF fault' = "none" THEN << Call("Present", 0) >> ELSE <<>>)
              /\ upload' = NoMesh
    /\ UNCHANGED <<regVars, heapVars, inputVars>>

(***************************************************************************)
(* Specifications                                                          *)
(***************************************************************************)
\* Camera(): the default constructor
DefaultCamera ==
    /\ Eye = <<10 * PosScale, 5 * PosScale, 0>>
    /\ At = <<0, 0, 0>>
    /\ Up = <<0, NormScale, 0>>
    /\ fps = 1
    /\ veloUpDown = 0
    /\ veloLeftRight = 0
    /\ veloEyeRot = 0
    /\ veloAtRot = 0
    /\ panEvents = 0

\* the sphere the scene specifications form
SceneMeridians == {3}

SceneParallels == {2}

\* the largest sphere the generator specification forms
MaxMeridians == 6

MaxParallels == 5

\* the instance the application initialises and renders with; the other
\* instance is made from it by the copy constructor
Main == 1

RegistryNext ==
    \/ \E r \in Regs, s \in Regs : MateykoCopy(r, s)
    \/ \E r \in Regs, s \in Regs : MateykoAssign(r, s)
    \/ InitDevice(Main)
    \/ \E c \in Colors : InsertObject(Main, AppMesh, c)
    \/ \E o \in ObjIds : InsertObjectCopy(Main, o)
    \/ \E m \in SceneMeridians, p \in SceneParallels, c \in Colors : formSphere(Main, m, p, c)
    \/ \E r \in Regs : \E i \in -1..Len(objects[r]) : RemoveObject(r, i)
    \/ \E r \in Regs : RemoveAll(r)
    \/ \E i \in 0..Len(oColors[Main]), c \in Colors : updateColor(Main, i, c)
    \/ formRectangleObject(Main, LevelNormal)
    \/ AppNewObject(Main)

SharingNext ==
    \/ \E r \in Regs, s \in Regs : MateykoCopy(r, s)
    \/ \E r \in Regs, s \in Regs : MateykoAssign(r, s)
    \/ InitDevice(Main)
    \/ InsertObject(Main, AppMesh, DefaultColor)
    \/ \E o \in ObjIds : InsertObjectCopy(Main, o)
    \/ \E r \in Regs : \E i \in 0..(Len(objects[r]) - 1) : RemoveObject(r, i)
    \/ \E r \in Regs : RemoveAll(r)
    \/ AppNewObject(Main)
    \/ \E o \in ObjIds : AppCopyObject(o)
    \/ \E l \in ObjIds, o \in ObjIds : AppAssignObject(l, o)
    \/ \E o \in ObjIds : AppDeleteObject(o)

\* formSphere over the range of its arguments, one sphere at a time
SphereNext ==
    \/ InitDevice(Main)
    \/ /\ objects[Main] = <<>>
       /\ \E m \in 3..MaxMeridians, p \in 2..MaxParallels, c \in Colors : formSphere(Main, m, p, c)
    \/ RemoveAll(Main)

\* formSphere over UINT arguments below and above the minimum counts
SphereAnyNext ==
    \/ InitDevice(Main)
    \/ /\ objects[Main] = <<>>
       /\ \E m \in 0..MaxMeridians, p \in 0..MaxParallels, c \in Colors : formSphere(Main, m, p, c)
    \/ RemoveAll(Main)

\* the ground of a registry that is filled, copied and assigned
GroundNext ==
    \/ \E r \in Regs, s \in Regs : MateykoCopy(r, s)
    \/ \E r \in Regs, s \in Regs : MateykoAssign(r, s)
    \/ \E r \in Regs : InitDevice(r)
    \/ \E c \in Colors : InsertObject(Main, AppMesh, c)
    \/ \E r \in Regs, n \in PlaneNormals : formRectangleObject(r, n)

\* one registry that inserts, inserts copies and removes
StaleNext ==
    \/ InitDevice(Main)
    \/ AppNewObject(Main)
    \/ \E c \in Colors : InsertObject(Main, AppMesh, c)
    \/ \E o \in ObjIds : InsertObjectCopy(Main, o)
    \/ \E i \in 0..(Len(objects[Main]) - 1) : RemoveObject(Main, i)

\* a backend whose CreateBuffer may fail
BackendNext ==
    \/ InitDevice(Main)
    \/ \E c \in Colors, hr \in HResults : InsertObjectBackend(Main, AppMesh, c, hr)
    \/ \E hr \in HResults : formRectangleObjectBackend(Main, LevelNormal, hr)
    \/ RemoveAll(Main)

FrameNext ==
    \/ \E r \in Regs, s \in Regs : MateykoCopy(r, s)
    \/ \E r \in Regs, s \in Regs : MateykoAssign(r, s)
    \/ InitDevice(Main)
    \/ BindInput(Main)
    \/ BindCamera(Main)
    \/ BindSpace(Main)
    \/ InsertObject(Main, AppMesh, DefaultColor)
    \/ \E i \in 0..(Len(objects[Main]) - 1) : RemoveObject(Main, i)
    \/ formRectangleObject(Main, LevelNormal)
    \/ \E r \in Regs : PaintScene(r)

\* the state after Mateyko() and Camera()
Init == DefaultCamera /\ SceneInit /\ ShaderInit({0})

\* the state after Mateyko(), Camera() and ShaderInput( ... ), whose varIndex
\* is not initialised
InitShader == DefaultCamera /\ SceneInit /\ ShaderInit(VarIndexValues)

\* the state after Mateyko() and Camera( _eye, _at, _up )
InitOrbit == CameraInit /\ SceneInit /\ ShaderInit({0})

Spec == Init /\ [][RegistryNext]_vars

SpecSharing == Init /\ [][SharingNext]_vars

SpecFrame == Init /\ [][FrameNext]_vars

SpecSphere == Init /\ [][SphereNext]_vars

SpecSphereAny == Init /\ [][SphereAnyNext]_vars

SpecGround == Init /\ [][GroundNext]_vars

SpecStale == Init /\ [][StaleNext]_vars

SpecBackend == Init /\ [][BackendNext]_vars

SpecHeld == Init /\ [][HeldNext]_vars

\* the frame loop calls UpdateCam every frame
SpecDecay == Init /\ [][PanNext]_vars /\ WF_vars(UpdateCam)

SpecShader == InitShader /\ [][ShaderNext]_vars

SpecCamera == Init /\ [][PanNext]_vars

SpecOrbit == InitOrbit /\ [][OrbitNext]_vars

(***************************************************************************)
(* Properties of the scene registry                                        *)
(***************************************************************************)
\* C1: after any sequence of InsertObject (from buffers or from an
\* Object3D), formSphere, RemoveObject, RemoveAll, updateColor,
\* formRectangleObject and registry copy or assignment, the objects vector
\* and the oColors vector of every registry have the same length.
C1_SameLength == \A r \in Regs : Len(objects[r]) = Len(oColors[r])

\* a registry of three entries was copied and then lost one entry
C1_Witness ==
    /\ lastOp.op = "RemoveObject" /\ lastOp.reg = Main /\ fault = "none"
    /\ Len(objects[Main]) = 2 /\ Len(oColors[Main]) = 2
    /\ constructed[2] /\ Len(objects[2]) = 3 /\ Len(oColors[2]) = 3

\* C2: RemoveObject( index ) with 0 <= index < count removes exactly the
\* object and the color at that index: the entries below keep their slot,
\* the entries above move down by one slot, and every remaining object keeps
\* its color.
C2_RemoveValid ==
    [][\A r \in Regs : \A i \in 0..(MaxObjects - 1) :
          (lastOp'.op = "RemoveObject" /\ lastOp'.reg = r /\ lastOp'.arg = i
              /\ i < Len(objects[r]))
          => /\ fault' = "none"
             /\ Len(objects'[r]) = Len(objects[r]) - 1
             /\ Len(oColors'[r]) = Len(oColors[r]) - 1
             /\ \A k \in 1..(Len(objects[r]) - 1) :
                   /\ objects'[r][k] = objects[r][IF k <= i THEN k ELSE k + 1]
                   /\ oColors'[r][k] = oColors[r][IF k <= i THEN k ELSE k + 1]
             /\ \A q \in Regs \ {r} : objects'[q] = objects[q] /\ oColors'[q] = oColors[q]
      ]_vars

\* three objects with two different colors at the ends, then index 1 removed
C2_Witness ==
    /\ lastOp.op = "RemoveObject" /\ lastOp.reg = Main /\ lastOp.arg = 1
    /\ fault = "none"
    /\ Len(objects[Main]) = 2
    /\ oColors[Main][1] # oColors[Main][2]

\* C3: RemoveObject( index ) with index < 0 or index >= count reports an
\* out-of-range failure to the caller and leaves the objects vector and the
\* oColors vector unchanged.
C3_RemoveInvalidReported ==
    [][\A r \in Regs : \A i \in -1..MaxObjects :
          (lastOp'.op = "RemoveObject" /\ lastOp'.reg = r /\ lastOp'.arg = i
              /\ (i < 0 \/ i >= Len(objects[r])))
          => /\ lastOp'.reported
             /\ fault' = "none"
             /\ objects' = objects
             /\ oColors' = oColors
      ]_vars

\* RemoveObject( 0 ) on an empty registry ended in the undefined erase
C3_Witness ==
    /\ lastOp.op = "RemoveObject" /\ lastOp.arg = 0
    /\ Len(objects[lastOp.reg]) = 0
    /\ fault = "erase_out_of_range"

\* C4: updateColor( index, color ) with index >= count returns without an
\* error and leaves every color, the objects and the ground unchanged; with
\* index < count it replaces oColors[ index ] and nothing else.
C4_UpdateColor ==
    [][\A r \in Regs : \A i \in 0..MaxObjects : \A c \in Colors :
          (lastOp'.op = "updateColor" /\ lastOp'.reg = r /\ lastOp'.arg = <<i, c>>)
          => /\ fault' = "none" /\ ~lastOp'.reported
             /\ objects' = objects
             /\ oGroundZero' = oGroundZero
             /\ o3d' = o3d /\ buffers' = buffers
             /\ \A q \in Regs \ {r} : oColors'[q] = oColors[q]
             /\ Len(oColors'[r]) = Len(oColors[r])
             /\ \A k \in 1..Len(oColors[r]) :
                   oColors'[r][k] = IF i < Len(oColors[r]) /\ k = i + 1 THEN c
                                    ELSE oColors[r][k]
      ]_vars

\* updateColor( 3, color ) on a registry of three objects
C4_Witness ==
    /\ lastOp.op = "updateColor" /\ lastOp.arg[1] = 3
    /\ Len(oColors[lastOp.reg]) = 3
    /\ fault = "none"

(***************************************************************************)
(* Properties of the camera                                                *)
(***************************************************************************)
\* C5: for every positive fps, the default fps = 1 included, each of the four
\* camera velocities stays in [0, 1] after any sequence of ArrowsUpDown,
\* ArrowsLeftRight and UpdateCam calls.
C5_VelocitiesBounded ==
    /\ 0 <= veloUpDown /\ veloUpDown <= VeloScale
    /\ 0 <= veloLeftRight /\ veloLeftRight <= VeloScale
    /\ 0 <= veloEyeRot /\ veloEyeRot <= VeloScale
    /\ 0 <= veloAtRot /\ veloAtRot <= VeloScale

\* the first ArrowsUpDown of a default camera
C5_Witness ==
    /\ lastOp.op = "ArrowsUpDown" /\ fps = 1 /\ panEvents = 1
    /\ veloUpDown = 3 * VeloScale

\* C7: when the cosine of the angle between Eye - At and world-up is above
\* the 0.9 threshold and the rotation asked for goes further toward that
\* pole, MouseUpDown leaves Eye, At, Up and the four velocities unchanged.
C7_OrbitRejected ==
    [][\A a \in MouseArgs :
          (lastOp'.op = "MouseUpDown" /\ lastOp'.arg = a
              /\ Cosine > (9 * NormScale) \div 10 /\ a > 0)
          => /\ Eye' = Eye /\ At' = At /\ Up' = Up
             /\ veloUpDown' = veloUpDown /\ veloLeftRight' = veloLeftRight
             /\ veloEyeRot' = veloEyeRot /\ veloAtRot' = veloAtRot
      ]_vars

\* an upward MouseUpDown of a camera that looks down from near the pole
C7_Witness ==
    /\ lastOp.op = "MouseUpDown" /\ lastOp.arg = 1
    /\ Cosine > (9 * NormScale) \div 10

(***************************************************************************)
(* Properties of the sphere generator                                      *)
(***************************************************************************)
\* C6: for meridians >= 3 and parallels >= 2 formSphere produces exactly
\* 2 + meridians * (parallels - 1) vertices and an index list whose length
\* is a multiple of 3 and whose every index is below the vertex count.
C6_SphereCounts ==
    (lastOp.op = "formSphere" /\ fault = "none")
    => LET meridians == lastOp.arg[1]
           parallels == lastOp.arg[2]
       IN  /\ Len(upload.vertices) = 2 + meridians * (parallels - 1)
           /\ Len(upload.indices) % 3 = 0
           /\ Len(upload.indices) > 0
           /\ \A k \in 1..Len(upload.indices) :
                 /\ 0 <= upload.indices[k]
                 /\ upload.indices[k] < Len(upload.vertices)

\* the sphere of 5 meridians and 4 parallels
C6_Witness ==
    /\ lastOp.op = "formSphere" /\ fault = "none"
    /\ lastOp.arg[1] = 5 /\ lastOp.arg[2] = 4
    /\ Len(upload.vertices) = 17
    /\ Len(upload.indices) = 90

(***************************************************************************)
(* Properties of the frame                                                 *)
(***************************************************************************)
\* C8: in every frame that is not skipped the calls come in this order: the
\* two clears, the shading parameters, the camera matrices and the eye
\* position, the positions and the colors, then PrepareObject and Draw for
\* every object and for the ground, and Present exactly once, as the last
\* call.
C8_FrameOrder ==
    LET r == lastOp.reg
    IN  (/\ lastOp.op = "PaintScene"
         /\ pd3dDevice[r] # NULL /\ pInput[r] # NULL /\ pCam[r] # NULL /\ pSpace[r] # NULL)
        => LET n == Len(objects[r])
               g == IF oGroundZero[r] = NULL THEN 0 ELSE 1
               last == 7 + 2 * n + 2 * g + 1
           IN  /\ Len(calls) = last
               /\ calls[1].fn = "ClearRenderTargetView"
               /\ calls[2].fn = "ClearDepthStencilView"
               /\ calls[3].fn = "PrepareShadingControlVars"
               /\ calls[4].fn = "PrepareCameraMatrices"
               /\ calls[5].fn = "PrepareEyePos"
               /\ calls[6].fn = "PreparePositions"
               /\ calls[7].fn = "PrepareColors"
               /\ \A k \in 8..(last - 1) :
                     calls[k].fn = IF k % 2 = 0 THEN "PrepareObject" ELSE "Draw"
               /\ calls[last].fn = "Present"

\* a frame with a bound registry ended inside the Draw of a deleted ground
C8_Witness ==
    /\ lastOp.op = "PaintScene"
    /\ fault = "use_after_free"
    /\ pd3dDevice[lastOp.reg] # NULL /\ pInput[lastOp.reg] # NULL
    /\ pCam[lastOp.reg] # NULL /\ pSpace[lastOp.reg] # NULL

\* C9: when the camera, the ShaderInput, the Space or the device is missing,
\* PaintScene issues no call, raises no error and changes neither the
\* registry nor the ground nor the camera.
C9_FrameSkipped ==
    [][\A r \in Regs :
          (/\ lastOp'.op = "PaintScene" /\ lastOp'.reg = r
           /\ (pd3dDevice[r] = NULL \/ pInput[r] = NULL \/ pCam[r] = NULL \/ pSpace[r] = NULL))
          => /\ calls' = <<>>
             /\ fault' = "none" /\ ~lastOp'.reported
             /\ UNCHANGED <<regVars, heapVars, camVars>>
      ]_vars

\* PaintScene of a registry with device, ShaderInput and camera but no Space
C9_Witness ==
    /\ lastOp.op = "PaintScene" /\ fault = "none"
    /\ pd3dDevice[lastOp.reg] # NULL /\ pInput[lastOp.reg] # NULL
    /\ pCam[lastOp.reg] # NULL /\ pSpace[lastOp.reg] = NULL
    /\ Len(objects[lastOp.reg]) > 0
    /\ calls = <<>>

(***************************************************************************)
(* Properties of the buffers                                               *)
(***************************************************************************)
\* C10: after any sequence of InsertObject, RemoveObject, RemoveAll, Object3D
\* copy and assignment and registry copy and assignment, the reference count
\* of a buffer pair is the number of live Object3D instances that hold it,
\* the pair is released exactly when that number is zero, and the live
\* instances are exactly those a registry or the application still holds.
C10_ReferenceCounts ==
    /\ \A b \in BufIds :
          LET users == {o \in ObjIds : o3d[o].state = "live" /\ o3d[o].buf = b}
          IN  /\ buffers[b].state = "live"
                    => (buffers[b].refs = Cardinality(users) /\ users # {})
              /\ buffers[b].state = "released" => (buffers[b].refs = 0 /\ users = {})
              /\ buffers[b].state = "none" => users = {}
    /\ {o \in ObjIds : o3d[o].state = "live"}
          = appObjs \cup UNION {Range(objects[r]) : r \in {q \in Regs : constructed[q]}}

\* RemoveAll on a registry whose copy keeps an object alive: one buffer pair
\* is still held twice, another one was released
C10_Witness ==
    /\ lastOp.op = "RemoveAll" /\ lastOp.reg = Main
    /\ constructed[2] /\ Len(objects[2]) > 0
    /\ \E b \in BufIds : buffers[b].state = "live" /\ buffers[b].refs = 2
    /\ \E b \in BufIds : buffers[b].state = "released"

\* C11: formSphere with meridians < 3 or parallels < 2 terminates, reports a
\* construction failure and appends no object and no color to the registry.
C11_InvalidCountsRefused ==
    [][(lastOp'.op = "formSphere" /\ (lastOp'.arg[1] < 3 \/ lastOp'.arg[2] < 2))
          => /\ fault' = "none"
             /\ lastOp'.reported
             /\ objects' = objects /\ oColors' = oColors
             /\ upload' = NoMesh
      ]_vars

\* formSphere with 1 meridian and 2 parallels returned and the registry holds
\* the object it made
C11_Witness ==
    /\ lastOp.op = "formSphere" /\ lastOp.arg[1] = 1 /\ lastOp.arg[2] = 2
    /\ fault = "none"
    /\ Len(objects[Main]) = 1 /\ Len(oColors[Main]) = 1
    /\ Len(upload.vertices) = 3 /\ Len(upload.indices) = 6

\* C12: formRectangleObject hands over exactly 4 vertices and the 6 indices
\* (0,1,2),(0,2,3), and the normal of each of the 4 vertices is the planeNormal
\* passed in.
C12_QuadMesh ==
    (lastOp.op = "formRectangleObject" /\ fault = "none")
        => /\ Len(upload.vertices) = 4
           /\ upload.indices = <<0, 1, 2, 0, 2, 3>>
           /\ \A k \in 1..4 : upload.vertices[k].Norm = lastOp.arg

\* a rectangle was formed with a normal that is neither level nor of unit length
C12_Witness ==
    /\ lastOp.op = "formRectangleObject" /\ fault = "none"
    /\ lastOp.arg = <<1, 1, 0>>
    /\ Len(upload.vertices) = 4
    /\ oGroundZero[lastOp.reg] # NULL

\* C13: a formRectangleObject call on a registry that has its device leaves
\* exactly one live ground object owned by that registry; the previous ground,
\* if there was one, was live until the call and is released by it exactly
\* once; the objects and colors vectors are unchanged.
C13_OneGround ==
    [][(lastOp'.op = "formRectangleObject" /\ pd3dDevice[lastOp'.reg] # NULL)
          => LET r == lastOp'.reg
                 old == oGroundZero[r]
                 new == oGroundZero'[r]
             IN  /\ fault' = "none"
                 /\ new # NULL /\ new # old
                 /\ o3d'[new].state = "live"
                 /\ \A s \in Regs : (s # r) => (oGroundZero'[s] # new)
                 /\ (old # NULL) => (o3d[old].state = "live" /\ o3d'[old].state = "deleted")
                 /\ objects' = objects /\ oColors' = oColors
      ]_vars

\* formRectangleObject ran on a registry that has its device and deleted a
\* ground that operator= had deleted before
C13_Witness ==
    /\ lastOp.op = "formRectangleObject"
    /\ pd3dDevice[lastOp.reg] # NULL
    /\ oGroundZero[lastOp.reg] # NULL
    /\ o3d[oGroundZero[lastOp.reg]].state = "deleted"
    /\ fault = "double_delete"

\* C14: an InsertObject( vertices, indices, vSize, iSize, color ) that returns
\* lengthens objects and oColors by one, puts a new live object and the given
\* color in the last slot and leaves every earlier pair in its slot; formSphere
\* inserts its sphere with the color passed to it.
C14_InsertAppends ==
    [][(lastOp'.op \in {"InsertObject", "formSphere"} /\ fault' = "none")
          => LET r == lastOp'.reg
                 n == Len(objects[r])
                 color == IF lastOp'.op = "formSphere" THEN lastOp'.arg[3] ELSE lastOp'.arg
             IN  /\ Len(objects'[r]) = n + 1
                 /\ Len(oColors'[r]) = Len(oColors[r]) + 1
                 /\ SubSeq(objects'[r], 1, n) = objects[r]
                 /\ SubSeq(oColors'[r], 1, Len(oColors[r])) = oColors[r]
                 /\ o3d[objects'[r][n + 1]].state = "none"
                 /\ o3d'[objects'[r][n + 1]].state = "live"
                 /\ oColors'[r][Len(oColors[r]) + 1] = color
                 /\ (lastOp'.op = "formSphere")
                       => \A k \in 1..Len(upload'.vertices) : upload'.vertices[k].color = color
      ]_vars

\* a sphere was inserted behind an object of another color
C14_Witness ==
    /\ lastOp.op = "formSphere" /\ fault = "none"
    /\ lastOp.arg[3] = "green"
    /\ Len(objects[Main]) = 2
    /\ oColors[Main] = <<"red", "green">>

\* C15: InsertObject( Object3D* ) appends one entry whose instance holds the
\* buffer pair of its argument: no buffer is created, the pair's reference
\* count rises by one, the color stored is the default color; and whatever
\* is destroyed afterwards, the original or the copy, the buffers of every
\* instance that is still alive are alive.
C15_InsertCopyShares ==
    [][/\ (lastOp'.op = "InsertObjectCopy")
            => LET r == lastOp'.reg
                   from == lastOp'.arg
                   n == Len(objects[r])
                   copy == objects'[r][n + 1]
               IN  /\ Len(objects'[r]) = n + 1 /\ Len(oColors'[r]) = n + 1
                   /\ SubSeq(objects'[r], 1, n) = objects[r]
                   /\ copy # from
                   /\ o3d'[copy].state = "live" /\ o3d'[from].state = "live"
                   /\ o3d'[copy].buf = o3d[from].buf
                   /\ \A b \in BufIds :
                         /\ buffers'[b].state = buffers[b].state
                         /\ buffers'[b].refs
                               = buffers[b].refs + (IF b = o3d[from].buf THEN 1 ELSE 0)
                   /\ oColors'[r][n + 1] = DefaultColor
       /\ \A o \in ObjIds :
             (o3d'[o].state = "live") => (buffers'[o3d'[o].buf].state = "live")
      ]_vars

\* the application deleted its instance; the only other instance there ever
\* was, the registry's copy of it, holds the one buffer pair alone
C15_Witness ==
    /\ lastOp.op = "AppDeleteObject"
    /\ appObjs = {}
    /\ Len(objects[Main]) = 1
    /\ oColors[Main] = <<DefaultColor>>
    /\ Cardinality({o \in ObjIds : o3d[o].state # "none"}) = 2
    /\ Cardinality({b \in BufIds : buffers[b].state # "none"}) = 1
    /\ o3d[objects[Main][1]].state = "live"
    /\ buffers[o3d[objects[Main][1]].buf].state = "live"
    /\ buffers[o3d[objects[Main][1]].buf].refs = 1

C17_BackendFailureAborts ==
    [][/\ (\E k \in 1..Len(calls') : calls'[k].fn = "CreateBuffer" /\ calls'[k].arg = NULL)
            => /\ lastOp'.reported
               /\ objects' = objects /\ oColors' = oColors
               /\ oGroundZero' = oGroundZero
       /\ \A r \in Regs : \A k \in 1..Len(objects'[r]) : o3d'[objects'[r][k]].buf # NULL
       /\ \A r \in Regs :
             (oGroundZero'[r] # NULL /\ o3d'[oGroundZero'[r]].state = "live")
                => o3d'[oGroundZero'[r]].buf # NULL
       /\ fault' # "null_buffer"
      ]_vars

\* RemoveAll destroyed an instance that InsertObject had stored although its
\* buffer was never created
C17_Witness ==
    /\ lastOp.op = "RemoveAll"
    /\ fault = "null_buffer"
    /\ \E k \in 1..Len(objects[Main]) :
          o3d[objects[Main][k]].state = "live" /\ o3d[objects[Main][k]].buf = NULL

\* C18: an orbit input raises the eye-orbit velocity like a pan input raises
\* a pan velocity, so that the velocity is positive after it and WsadLeftRight
\* turns At about the eye by the non-zero angle pi * veloEyeRot / fps.
C18_OrbitVelocityRaised ==
    [][/\ (lastOp'.op \in {"MouseUpDown", "MouseLeftRight", "WsadLeftRight"})
            => veloEyeRot' > 0
       /\ (lastOp'.op = "WsadLeftRight") => (WsadAngle' # 0 /\ At' # At)
      ]_vars

\* WsadLeftRight ran after a horizontal orbit of the eye; the eye-orbit
\* velocity is 0 and At is where the constructor put it
C18_Witness ==
    /\ lastOp.op = "WsadLeftRight"
    /\ veloEyeRot = 0 /\ veloAtRot = 0
    /\ At \in {s.at : s \in CameraStarts}
    /\ Eye \notin {s.eye : s \in CameraStarts}

\* C19: with a held key at fps = 60 (one ArrowsUpDown event and one UpdateCam
\* per frame) the velocity the displacement uses ramps up: as long as it is
\* below 1.0, the velocity of the next frame is strictly larger than that of
\* the frame just ended, and it never exceeds 1.0.
C19_HeldKeyRamps ==
    [][(lastOp'.op = "UpdateCam" /\ fps = 60)
          => /\ veloUpDown <= VeloScale
             /\ (veloUpDown < VeloScale) => (Accelerated(veloUpDown') > veloUpDown)
      ]_vars

\* the third frame of a key held at fps = 60: the velocity is that of the
\* first frame, and the eye has moved three times the step of the first frame
C19_Witness ==
    /\ lastOp.op = "ArrowsUpDown" /\ lastOp.arg = 1
    /\ fps = 60 /\ panEvents = 3
    /\ veloUpDown = DivT(acceleration, 60)
    /\ Eye = <<10 * PosScale - 3, 5 * PosScale, 0>>

\* C20: every UpdateCam call lowers each of the four velocities by
\* |braking| / fps, to 0 where that would go below 0; and once no input event
\* occurs any more, the calls bring all four velocities to exactly 0, where
\* they remain.
C20_DecayToZero ==
    /\ [][(lastOp'.op = "UpdateCam")
            => \A p \in { <<veloUpDown, veloUpDown'>>, <<veloLeftRight, veloLeftRight'>>,
                           <<veloEyeRot, veloEyeRot'>>, <<veloAtRot, veloAtRot'>> } :
                  /\ p[2] >= 0
                  /\ p[2] = IF p[1] * fps >= -braking THEN p[1] - DivT(-braking, fps) ELSE 0
         ]_vars
    /\ (<>[][lastOp'.op = "UpdateCam"]_vars)
          => <>[](veloUpDown = 0 /\ veloLeftRight = 0 /\ veloEyeRot = 0 /\ veloAtRot = 0)

\* two UpdateCam calls after the last event: one pan velocity has reached 0,
\* the other, raised at a lower frame rate, is still above 0
C20_Witness ==
    /\ lastOp.op = "UpdateCam"
    /\ fps = 3
    /\ veloUpDown = 0
    /\ veloLeftRight = VeloScale
    /\ panEvents >= 2

\* C21: for meridians >= 3 and parallels >= 2 and every pair of adjacent
\* meridians (i, (i + 1) mod meridians), the index list holds exactly one
\* triangle of the top pole and the first vertices of the two meridians, and
\* exactly one triangle of the bottom pole and the last vertices of the two
\* meridians.
C21_PoleFans ==
    (lastOp.op = "formSphere" /\ fault = "none" /\ lastOp.arg[1] >= 3 /\ lastOp.arg[2] >= 2)
    => LET meridians == lastOp.arg[1]
           parallels == lastOp.arg[2]
           inds == upload.indices
           corners(t) == {inds[3 * t + 1], inds[3 * t + 2], inds[3 * t + 3]}
           count(c) == Cardinality({t \in 0..((Len(inds) \div 3) - 1) : corners(t) = c})
       IN  \A i \in 0..(meridians - 1) :
              LET n == (i + 1) % meridians
              IN  /\ count({0, VertexIndex(i, 0, parallels), VertexIndex(n, 0, parallels)}) = 1
                  /\ count({1, VertexIndex(i, parallels - 2, parallels),
                               VertexIndex(n, parallels - 2, parallels)}) = 1

\* the sphere of 4 meridians and 3 parallels: the triangle at the bottom pole
\* between meridians 0 and 1 has the corners 1, 3, 5 and the index list holds
\* the corners 1, 2, 4 instead
C21_Witness ==
    /\ lastOp.op = "formSphere" /\ fault = "none"
    /\ lastOp.arg[1] = 4 /\ lastOp.arg[2] = 3
    /\ \E t \in 0..((Len(upload.indices) \div 3) - 1) :
          {upload.indices[3 * t + 1], upload.indices[3 * t + 2], upload.indices[3 * t + 3]}
             = {1, 2, 4}
    /\ ~\E t \in 0..((Len(upload.indices) \div 3) - 1) :
          {upload.indices[3 * t + 1], upload.indices[3 * t + 2], upload.indices[3 * t + 3]}
             = {1, 3, 5}

\* C22: for meridians >= 3 and parallels >= 3, every pair of adjacent
\* meridians (i, (i + 1) mod meridians), the last and the first included, and
\* every j in 0..parallels - 3: exactly two triangles of the index list lie
\* in the square (i,j), (i+1,j), (i+1,j+1), (i,j+1), and they are the two
\* halves along the diagonal (i,j)-(i+1,j+1); the index list has
\* 6 * meridians * (parallels - 1) entries.
C22_QuadStrips ==
    (lastOp.op = "formSphere" /\ fault = "none" /\ lastOp.arg[1] >= 3 /\ lastOp.arg[2] >= 3)
    => LET meridians == lastOp.arg[1]
           parallels == lastOp.arg[2]
           inds == upload.indices
           corners(t) == {inds[3 * t + 1], inds[3 * t + 2], inds[3 * t + 3]}
           triangles == 0..((Len(inds) \div 3) - 1)
       IN  /\ Len(inds) = 6 * meridians * (parallels - 1)
           /\ \A i \in 0..(meridians - 1) : \A j \in 0..(parallels - 3) :
                 LET n == (i + 1) % meridians
                     a == VertexIndex(i, j, parallels)
                     b == VertexIndex(n, j, parallels)
                     c == VertexIndex(n, j + 1, parallels)
                     d == VertexIndex(i, j + 1, parallels)
                 IN  /\ Cardinality({t \in triangles : corners(t) \subseteq {a, b, c, d}}) = 2
                     /\ Cardinality({t \in triangles : corners(t) = {a, b, c}}) = 1
                     /\ Cardinality({t \in triangles : corners(t) = {a, c, d}}) = 1

\* the sphere of 6 meridians and 5 parallels, with the two halves of the
\* square between the last meridian and the first at j = 2
C22_Witness ==
    /\ lastOp.op = "formSphere" /\ fault = "none"
    /\ lastOp.arg[1] = 6 /\ lastOp.arg[2] = 5
    /\ Len(upload.indices) = 144
    /\ \E t \in 0..47 :
          {upload.indices[3 * t + 1], upload.indices[3 * t + 2], upload.indices[3 * t + 3]}
             = {VertexIndex(5, 2, 5), VertexIndex(0, 2, 5), VertexIndex(0, 3, 5)}

\* C23: for meridians >= 3 and parallels >= 2, parallels = 2 included, the
\* three indices of every triple of the index list are pairwise distinct.
C23_NoDegenerateTriangle ==
    (lastOp.op = "formSphere" /\ fault = "none" /\ lastOp.arg[1] >= 3 /\ lastOp.arg[2] >= 2)
    => \A t \in 0..((Len(upload.indices) \div 3) - 1) :
          /\ upload.indices[3 * t + 1] # upload.indices[3 * t + 2]
          /\ upload.indices[3 * t + 2] # upload.indices[3 * t + 3]
          /\ upload.indices[3 * t + 1] # upload.indices[3 * t + 3]

\* the sphere of 3 meridians and 2 parallels: the bottom triangle of
\* meridian 0 names the bottom pole twice
C23_Witness ==
    /\ lastOp.op = "formSphere" /\ fault = "none"
    /\ lastOp.arg[1] = 3 /\ lastOp.arg[2] = 2
    /\ \E t \in 0..((Len(upload.indices) \div 3) - 1) :
          /\ upload.indices[3 * t + 2] = 1
          /\ 1 \in {upload.indices[3 * t + 1], upload.indices[3 * t + 3]}

\* C24: MouseUpDown is rejected only near a pole: where the cosine between
\* Eye - At and world-up is at most 0.9 in absolute value, a rotation of
\* either sign passes the guard and is applied.
C24_OrbitAcceptedAwayFromPoles ==
    [][(lastOp'.op = "MouseUpDown" /\ Abs(Cosine) <= GimbalThreshold)
          => ~MouseUpDownRejected(lastOp'.arg)
      ]_vars

\* a downward MouseUpDown of a camera 27 degrees above the horizon returned
\* early
C24_Witness ==
    /\ lastOp.op = "MouseUpDown" /\ lastOp.arg = -1
    /\ Eye = <<10 * PosScale, 5 * PosScale, 0>> /\ At = <<0, 0, 0>>
    /\ Abs(Cosine) <= GimbalThreshold
    /\ MouseUpDownRejected(-1)

\* C25: a MouseUpDown( arg ) that is not rejected leaves At where it is and
\* moves Eye inside the vertical plane through the old eye, At and world-up
\* (its offset from At has no component along the horizontal rotation axis);
\* with arg = 0 it leaves Eye where it is.
C25_OrbitVerticalRotates ==
    [][(lastOp'.op = "MouseUpDown" /\ ~MouseUpDownRejected(lastOp'.arg))
          => LET axis == CrossWithUp(XMVector3Normalize(XMVectorSetY(VecSub(Eye, At), 0)))
             IN  /\ At' = At
                 /\ Abs(Dot(VecSub(Eye', At), axis)) <= NormScale
                 /\ (lastOp'.arg = 0) => (Eye' = Eye)
      ]_vars

\* MouseUpDown( 0 ) was applied to a camera above the horizon: the eye is
\* level with At, beside the plane it was in
C25_Witness ==
    /\ lastOp.op = "MouseUpDown" /\ lastOp.arg = 0
    /\ At = <<0, 0, 0>>
    /\ Eye[2] = 0 /\ Eye[1] = 0 /\ Eye[3] # 0

\* C26: ArrowsUpDown and ArrowsLeftRight add one and the same displacement
\* to Eye and to At, so At - Eye is unchanged; the displacement has no y
\* component; and the call changes no velocity but that of its own axis and
\* leaves Up unchanged.
C26_PanMovesBoth ==
    [][(lastOp'.op \in {"ArrowsUpDown", "ArrowsLeftRight"})
          => /\ VecSub(Eye', Eye) = VecSub(At', At)
             /\ VecSub(At', Eye') = VecSub(At, Eye)
             /\ Eye'[2] = Eye[2] /\ At'[2] = At[2]
             /\ Up' = Up
             /\ veloEyeRot' = veloEyeRot /\ veloAtRot' = veloAtRot
             /\ (lastOp'.op = "ArrowsUpDown") => (veloLeftRight' = veloLeftRight)
             /\ (lastOp'.op = "ArrowsLeftRight") => (veloUpDown' = veloUpDown)
      ]_vars

\* a pan to the left after a pan forward: both pan velocities are positive
\* and the eye has left the x axis on which it started
C26_Witness ==
    /\ lastOp.op = "ArrowsLeftRight" /\ lastOp.arg = -1
    /\ veloUpDown > 0 /\ veloLeftRight > 0
    /\ Eye[3] # 0 /\ Eye[1] # 10 * PosScale
    /\ VecSub(At, Eye) = <<-10 * PosScale, -5 * PosScale, 0>>

\* C27: in every frame that is not skipped there is, for every slot i of the
\* registry in ascending order, exactly one PrepareObject with index i,
\* immediately followed by the Draw of objects[ i ]; if a ground object
\* exists, exactly one PrepareObject with index -1 immediately followed by
\* the Draw of the ground, after all registry draws and immediately before
\* Present; if none exists, index -1 is not pushed.
C27_ObjectLoop ==
    LET r == lastOp.reg
    IN  (lastOp.op = "PaintScene" /\ ~FrameSkipped(r))
        => LET n == Len(objects[r])
               pushes(i) == {k \in 1..Len(calls) : calls[k].fn = "PrepareObject" /\ calls[k].arg = i}
               ground == oGroundZero[r] # NULL /\ o3d[oGroundZero[r]].state = "live"
           IN  /\ \A i \in 0..(n - 1) :
                     /\ pushes(i) = {8 + 2 * i}
                     /\ Len(calls) >= 9 + 2 * i
                     /\ calls[9 + 2 * i] = Call("Draw", objects[r][i + 1])
               /\ Cardinality({k \in 1..Len(calls) : calls[k].fn = "Draw"})
                     = n + (IF ground THEN 1 ELSE 0)
               /\ IF ground
                  THEN /\ pushes(-1) = {8 + 2 * n}
                       /\ Len(calls) = 10 + 2 * n
                       /\ calls[9 + 2 * n] = Call("Draw", oGroundZero[r])
                       /\ calls[10 + 2 * n].fn = "Present"
                  ELSE pushes(-1) = {}

\* a frame that returned: index -1 was pushed and Draw was called for a
\* ground that operator= had deleted, behind the draw of an object
C27_Witness ==
    /\ lastOp.op = "PaintScene" /\ fault = "none"
    /\ ~FrameSkipped(lastOp.reg)
    /\ Len(objects[lastOp.reg]) > 0
    /\ oGroundZero[lastOp.reg] # NULL
    /\ o3d[oGroundZero[lastOp.reg]].state = "deleted"
    /\ \E k \in 1..Len(calls) : calls[k] = Call("PrepareObject", -1)

\* C28: after any sequence of NmpdNumber and NmpdAddSubtract calls vChannel
\* is within 0..15; it changes only in an NmpdAddSubtract call made while
\* varIndex is 6, and then by exactly +1 or -1.
C28_ChannelBounded ==
    /\ vChannel \in 0..15
    /\ [][/\ vChannel' \in 0..15
          /\ (vChannel' # vChannel)
                => /\ lastOp'.op = "NmpdAddSubtract"
                   /\ varIndex = 6
                   /\ vChannel' = vChannel + (IF lastOp'.arg >= 0 THEN 1 ELSE -1)
         ]_vars

\* an increment was asked for with parameter 6 selected and the channel is 15,
\* while two of the floating-point values have been adjusted
C28_Witness ==
    /\ lastOp.op = "NmpdAddSubtract" /\ lastOp.arg = 1
    /\ varIndex = 6
    /\ vChannel = 15
    /\ vShading[1] = 1 /\ vShading[5] = -1

\* C29: in every reachable state the ground pointer of a registry is null or
\* refers to a ground object that has not been released; over any sequence of
\* formRectangleObject, operator= and PaintScene calls no ground is drawn
\* after its release and none is released twice.
C29_GroundLiveOrNull ==
    /\ \A r \in Regs :
          constructed[r] => (oGroundZero[r] = NULL \/ o3d[oGroundZero[r]].state = "live")
    /\ fault \notin {"double_delete", "use_after_free"}
    /\ \A k \in 1..Len(calls) :
          (calls[k].fn = "Draw") => (o3d[calls[k].arg].state = "live")

\* operator= has just returned on a registry that owned a ground: the ground
\* is deleted and the pointer still refers to it
C29_Witness ==
    /\ lastOp.op = "MateykoAssign" /\ fault = "none"
    /\ lastOp.reg # lastOp.arg
    /\ oGroundZero[lastOp.reg] # NULL
    /\ o3d[oGroundZero[lastOp.reg]].state = "deleted"
    /\ pd3dDevice[lastOp.reg] = NULL

\* C30: on a registry whose device pointer is null (InitDevice has not run
\* since construction, copy construction or assignment) BindInput,
\* InsertObject from buffers, formSphere and formRectangleObject do not call
\* through the device pointer, and PaintScene makes no call at all.
C30_NoNullDeviceUse ==
    LET r == lastOp.reg
    IN  /\ (/\ lastOp.op \in {"BindInput", "InsertObject", "formSphere", "formRectangleObject"}
            /\ pd3dDevice[r] = NULL)
              => fault # "null_device"
        /\ (lastOp.op = "PaintScene" /\ pd3dDevice[r] = NULL)
              => (calls = <<>> /\ fault = "none")

\* BindInput ran on a registry that had its device, filled its vectors and
\* was then the target of operator=
C30_Witness ==
    /\ lastOp.op = "BindInput" /\ lastOp.reg = Main
    /\ pd3dDevice[Main] = NULL
    /\ Len(objects[Main]) > 0
    /\ fault = "null_device"

====
